---- MODULE Spec2Model ----
(***************************************************************************)
(* The radix tree of tree.go: the node store with its free list, and       *)
(* insert, delete and find walking the tree bit by bit over byte           *)
(* sequences (net.IP / net.IPMask).  Node pointers are indices into the    *)
(* sequence of all nodes ever taken from storage; 0 is the nil pointer.    *)
(***************************************************************************)
EXTENDS Integers, Sequences, FiniteSets, TLC

\* root, free: tree.root, tree.free; nodes: every node taken from storage;
\* allocLen, allocCap: len and cap of tree.alloc; last: the last call of the
\* public interface and what it returned (err, and value for a lookup)
VARIABLES root, free, nodes, allocLen, allocCap, last

vars == <<root, free, nodes, allocLen, allocCap, last>>

(* ------------------------------ bounds --------------------------------- *)
\* bytes in an address (16 in parsecidr; the walks work on any length)
AddrLen == 1
\* nodes that may be taken from storage before inserts stop
MaxNodes == 16
\* distinct non-nil values offered to the inserts
NumValues == 1
\* distinct non-nil values offered to the inserts where lookups must tell
\* the values of different prefixes apart
NumLookupValues == 2

(* ----------------------------- constants ------------------------------- *)
startbyte == 128
ChunkGrow == 200
ByteBits == 8

Nil == 0
NoValue == "nil"
NoErr == "nil"
ErrNodeBusy == "Node Busy"
ErrNotFound == "No Such Node"
ErrBadIP == "Bad IP address or mask"
ErrParse == "invalid CIDR address"
Panic == "panic: nil pointer dereference"

ValueNames == <<"A", "B", "C">>
Values == {ValueNames[i] : i \in 1..NumValues}
LookupValues == {ValueNames[i] : i \in 1..NumLookupValues}
ZeroNode == [left |-> Nil, right |-> Nil, parent |-> Nil, value |-> NoValue]

(* --------------------------- bytes and masks --------------------------- *)
\* b & bit != 0, for a one-bit bit
HasBit(b, bit) == (b \div bit) % 2 = 1

Width == ByteBits * AddrLen

RECURSIVE Pow2(_)
Pow2(n) == IF n = 0 THEN 1 ELSE 2 * Pow2(n - 1)

\* net.CIDRMask(ones, bits): ones set bits from the most significant end;
\* nil (the empty sequence) when bits is not the width of an address or
\* ones is not in 0..bits
CIDRMask(ones, bits) ==
    IF bits # ByteBits * AddrLen \/ ones < 0 \/ ones > bits THEN << >>
    ELSE [j \in 1..(bits \div ByteBits) |->
            IF ones >= ByteBits * j THEN 255
            ELSE IF ones <= ByteBits * (j - 1) THEN 0
            ELSE 256 - Pow2(ByteBits * j - ones)]

fullMask == CIDRMask(Width, Width)

(* ------------------------------ the tree ------------------------------- *)
Tree == [root |-> root, free |-> free, nodes |-> nodes,
         len |-> allocLen, cap |-> allocCap]

\* newnode with the stale value left in a node popped from the free list
newnode_keepvalue(t) ==
    IF t.free # Nil
    THEN LET p == t.free
         IN  [t |-> [t EXCEPT !.free = t.nodes[p].right,
                              !.nodes[p] = [ZeroNode EXCEPT !.value = t.nodes[p].value]],
              p |-> p]
    ELSE [t |-> [t EXCEPT !.nodes = Append(@, ZeroNode),
                          !.len = IF t.len = t.cap THEN 1 ELSE t.len + 1,
                          !.cap = IF t.len = t.cap THEN t.len + ChunkGrow ELSE t.cap],
          p |-> Len(t.nodes) + 1]

\* newnode with the left and parent links left as they were in a node
\* popped from the free list
newnode_keeplinks(t) ==
    IF t.free # Nil
    THEN LET p == t.free
         IN  [t |-> [t EXCEPT !.free = t.nodes[p].right,
                              !.nodes[p] = [t.nodes[p] EXCEPT !.right = Nil,
                                                              !.value = NoValue]],
              p |-> p]
    ELSE [t |-> [t EXCEPT !.nodes = Append(@, ZeroNode),
                          !.len = IF t.len = t.cap THEN 1 ELSE t.len + 1,
                          !.cap = IF t.len = t.cap THEN t.len + ChunkGrow ELSE t.cap],
          p |-> Len(t.nodes) + 1]

\* newnode that hands out the head of the free list without taking it off
\* the list
newnode_nopop(t) ==
    IF t.free # Nil
    THEN LET p == t.free
         IN  [t |-> [t EXCEPT !.nodes[p] = ZeroNode], p |-> p]
    ELSE [t |-> [t EXCEPT !.nodes = Append(@, ZeroNode),
                          !.len = IF t.len = t.cap THEN 1 ELSE t.len + 1,
                          !.cap = IF t.len = t.cap THEN t.len + ChunkGrow ELSE t.cap],
          p |-> Len(t.nodes) + 1]

\* newnode that never looks at the free list: every node is a fresh one
newnode_freshonly(t) ==
    [t |-> [t EXCEPT !.nodes = Append(@, ZeroNode),
                     !.len = IF t.len = t.cap THEN 1 ELSE t.len + 1,
                     !.cap = IF t.len = t.cap THEN t.len + ChunkGrow ELSE t.cap],
     p |-> Len(t.nodes) + 1]

\* newnode: pop the free list and clear the node, else take the next node
\* of the chunk, growing a new chunk when the current one is full
newnode(t) ==
    IF t.free # Nil
    THEN LET p == t.free
         IN  [t |-> [t EXCEPT !.free = t.nodes[p].right,
                              !.nodes[p] = ZeroNode],
              p |-> p]
    ELSE [t |-> [t EXCEPT !.nodes = Append(@, ZeroNode),
                          !.len = IF t.len = t.cap THEN 1 ELSE t.len + 1,
                          !.cap = IF t.len = t.cap THEN t.len + ChunkGrow ELSE t.cap],
          p |-> Len(t.nodes) + 1]

\* NewTree: the root is the first node of the first chunk
NewTree == newnode([root |-> Nil, free |-> Nil, nodes |-> <<>>, len |-> 0, cap |-> 0])

\* the child of node that the bit of key selects
child(ns, node, key, i, bit) ==
    IF HasBit(key[i + 1], bit) THEN ns[node].right ELSE ns[node].left

(* ------------------------------- insert -------------------------------- *)
\* the descent over existing nodes; s = [node, next, i, bit]
RECURSIVE insertWalk(_, _, _, _)
insertWalk(ns, key, mask, s) ==
    IF ~HasBit(mask[s.i + 1], s.bit) THEN s
    ELSE LET next == child(ns, s.node, key, s.i, s.bit)
             bit2 == s.bit \div 2
         IN  IF next = Nil THEN [s EXCEPT !.next = Nil]
             ELSE IF bit2 = 0
                  THEN IF s.i + 1 = Len(key)
                       THEN [node |-> next, next |-> next, i |-> s.i + 1, bit |-> 0]
                       ELSE insertWalk(ns, key, mask,
                              [node |-> next, next |-> next, i |-> s.i + 1, bit |-> startbyte])
                  ELSE insertWalk(ns, key, mask,
                              [node |-> next, next |-> next, i |-> s.i, bit |-> bit2])

\* the creation of the missing nodes with the back-reference to the parent
\* left unset
RECURSIVE insertGrow_noparent(_, _, _, _, _, _)
insertGrow_noparent(t, key, mask, node, i, bit) ==
    IF ~HasBit(mask[i + 1], bit) THEN [t |-> t, node |-> node]
    ELSE LET a == newnode(t)
             p == a.p
             ns2 == IF HasBit(key[i + 1], bit)
                    THEN [a.t.nodes EXCEPT ![node].right = p]
                    ELSE [a.t.nodes EXCEPT ![node].left = p]
             t2 == [a.t EXCEPT !.nodes = ns2]
             bit2 == bit \div 2
         IN  IF bit2 = 0
             THEN IF i + 1 = Len(key)
                  THEN [t |-> t2, node |-> p]
                  ELSE insertGrow_noparent(t2, key, mask, p, i + 1, startbyte)
             ELSE insertGrow_noparent(t2, key, mask, p, i, bit2)

\* the creation of the missing nodes below node; the result is [t, node]
RECURSIVE insertGrow(_, _, _, _, _, _)
insertGrow(t, key, mask, node, i, bit) ==
    IF ~HasBit(mask[i + 1], bit) THEN [t |-> t, node |-> node]
    ELSE LET a == newnode(t)
             p == a.p
             ns1 == [a.t.nodes EXCEPT ![p].parent = node]
             ns2 == IF HasBit(key[i + 1], bit)
                    THEN [ns1 EXCEPT ![node].right = p]
                    ELSE [ns1 EXCEPT ![node].left = p]
             t2 == [a.t EXCEPT !.nodes = ns2]
             bit2 == bit \div 2
         IN  IF bit2 = 0
             THEN IF i + 1 = Len(key)
                  THEN [t |-> t2, node |-> p]
                  ELSE insertGrow(t2, key, mask, p, i + 1, startbyte)
             ELSE insertGrow(t2, key, mask, p, i, bit2)

\* the conflict test with the overwrite flag ignored
busy_ignoreflag(v, overwrite) == v # NoValue

\* the conflict test with the flag taken the wrong way round
busy_flipped(v, overwrite) == v # NoValue /\ overwrite

\* node.value != nil && !overwrite
busy(v, overwrite) == v # NoValue /\ ~overwrite

\* the store into an existing node with the assignment made before the
\* conflict test
setValue_assignfirst(t, node, value, overwrite) ==
    [t |-> [t EXCEPT !.nodes[node].value = value],
     err |-> IF busy(t.nodes[node].value, overwrite) THEN ErrNodeBusy ELSE NoErr]

\* the store into the existing node the descent ended on
setValue(t, node, value, overwrite) ==
    IF busy(t.nodes[node].value, overwrite)
    THEN [t |-> t, err |-> ErrNodeBusy]
    ELSE [t |-> [t EXCEPT !.nodes[node].value = value], err |-> NoErr]

\* insert: the result is [t, err]
insert(t, key, mask, value, overwrite) ==
    IF Len(key) # Len(mask) THEN [t |-> t, err |-> ErrBadIP]
    ELSE LET s == insertWalk(t.nodes, key, mask,
                    [node |-> t.root, next |-> t.root, i |-> 0, bit |-> startbyte])
         IN  IF s.next # Nil
             THEN setValue(t, s.node, value, overwrite)
             ELSE LET g == insertGrow(t, key, mask, s.node, s.i, s.bit)
                  IN  [t |-> [g.t EXCEPT !.nodes[g.node].value = value], err |-> NoErr]

(* ------------------------------- delete -------------------------------- *)
\* the descent of delete, which never creates a node; the result is the
\* node reached, or Nil
RECURSIVE deleteWalk(_, _, _, _, _, _)
deleteWalk(ns, key, mask, node, i, bit) ==
    IF node = Nil \/ ~HasBit(mask[i + 1], bit) THEN node
    ELSE LET nx == child(ns, node, key, i, bit)
             bit2 == bit \div 2
         IN  IF bit2 = 0
             THEN IF i + 1 = Len(key)
                  THEN nx
                  ELSE deleteWalk(ns, key, mask, nx, i + 1, startbyte)
             ELSE deleteWalk(ns, key, mask, nx, i, bit2)

\* the trim loop cut short: only the node itself is unlinked and recycled,
\* the parents it leaves empty stay in the tree
trim_once(t, node) ==
    LET par == t.nodes[node].parent
        ns1 == IF t.nodes[par].right = node
               THEN [t.nodes EXCEPT ![par].right = Nil]
               ELSE [t.nodes EXCEPT ![par].left = Nil]
        ns2 == [ns1 EXCEPT ![node].right = t.free]
    IN  [t EXCEPT !.nodes = ns2, !.free = node]

\* the trim loop: unlink node from its parent, push it on the free list,
\* and go on with the parent while it is empty and not the root
RECURSIVE trim(_, _)
trim(t, node) ==
    LET par == t.nodes[node].parent
        ns1 == IF t.nodes[par].right = node
               THEN [t.nodes EXCEPT ![par].right = Nil]
               ELSE [t.nodes EXCEPT ![par].left = Nil]
        ns2 == [ns1 EXCEPT ![node].right = t.free]
        t2 == [t EXCEPT !.nodes = ns2, !.free = node]
    IN  IF ns2[par].right # Nil \/ ns2[par].left # Nil \/ ns2[par].value # NoValue
        THEN t2
        ELSE IF ns2[par].parent = Nil THEN t2 ELSE trim(t2, par)

\* the keep test with the range flag dropped: any node with children is kept
keep_ignorerange(n, wholeRange) == n.right # Nil \/ n.left # Nil

\* !wholeRange && (node.right != nil || node.left != nil)
keep(n, wholeRange) == ~wholeRange /\ (n.right # Nil \/ n.left # Nil)

\* keep the node, just trim its value
trimValue(t, node) ==
    IF t.nodes[node].value # NoValue
    THEN [t |-> [t EXCEPT !.nodes[node].value = NoValue], err |-> NoErr]
    ELSE [t |-> t, err |-> ErrNotFound]

\* delete: the result is [t, err]; node.parent of the root is nil, and
\* reading node.parent.right there is a nil pointer dereference
delete(t, key, mask, wholeRange) ==
    IF Len(key) # Len(mask) THEN [t |-> t, err |-> ErrBadIP]
    ELSE LET node == deleteWalk(t.nodes, key, mask, t.root, 0, startbyte)
         IN  IF node = Nil THEN [t |-> t, err |-> ErrNotFound]
             ELSE IF keep(t.nodes[node], wholeRange) THEN trimValue(t, node)
             ELSE IF t.nodes[node].parent = Nil THEN [t |-> t, err |-> Panic]
             ELSE [t |-> trim(t, node), err |-> NoErr]

(* -------------------------------- find --------------------------------- *)
\* the loop of find with the nil test made at the end of the key as well:
\* the value at full depth is taken only when the node has one
RECURSIVE findLoop_guarded(_, _, _, _, _, _, _)
findLoop_guarded(ns, key, mask, node, i, bit, value) ==
    IF node = Nil THEN value
    ELSE LET v1 == IF ns[node].value # NoValue THEN ns[node].value ELSE value
             nx == child(ns, node, key, i, bit)
             bit2 == bit \div 2
         IN  IF ~HasBit(mask[i + 1], bit) THEN v1
             ELSE IF bit2 = 0
                  THEN IF i + 1 >= Len(key)
                       THEN IF nx # Nil /\ ns[nx].value # NoValue THEN ns[nx].value ELSE v1
                       ELSE findLoop_guarded(ns, key, mask, nx, i + 1, startbyte, v1)
                  ELSE findLoop_guarded(ns, key, mask, nx, i, bit2, v1)

\* the loop of find without the test of the mask: the descent goes on to
\* the end of the key
RECURSIVE findLoop_nomask(_, _, _, _, _, _, _)
findLoop_nomask(ns, key, mask, node, i, bit, value) ==
    IF node = Nil THEN value
    ELSE LET v1 == IF ns[node].value # NoValue THEN ns[node].value ELSE value
             nx == child(ns, node, key, i, bit)
             bit2 == bit \div 2
         IN  IF bit2 = 0
             THEN IF i + 1 >= Len(key)
                  THEN IF nx # Nil THEN ns[nx].value ELSE v1
                  ELSE findLoop_nomask(ns, key, mask, nx, i + 1, startbyte, v1)
             ELSE findLoop_nomask(ns, key, mask, nx, i, bit2, v1)

\* the loop of find: remember the value of each node visited that has one,
\* step to the child, stop where the mask ends; at the end of the key the
\* value of the node reached is taken as it is
RECURSIVE findLoop(_, _, _, _, _, _, _)
findLoop(ns, key, mask, node, i, bit, value) ==
    IF node = Nil THEN value
    ELSE LET v1 == IF ns[node].value # NoValue THEN ns[node].value ELSE value
             nx == child(ns, node, key, i, bit)
             bit2 == bit \div 2
         IN  IF ~HasBit(mask[i + 1], bit) THEN v1
             ELSE IF bit2 = 0
                  THEN IF i + 1 >= Len(key)
                       THEN IF nx # Nil THEN ns[nx].value ELSE v1
                       ELSE findLoop(ns, key, mask, nx, i + 1, startbyte, v1)
                  ELSE findLoop(ns, key, mask, nx, i, bit2, v1)

\* find: the value, or the ErrBadIP error value on a width mismatch
find(t, key, mask) ==
    IF Len(key) # Len(mask) THEN ErrBadIP
    ELSE findLoop(t.nodes, key, mask, t.root, 0, startbyte, NoValue)

(* ------------------------------- inputs -------------------------------- *)
\* an address of AddrLen bytes: hi in the first byte, lo in the last
Addr(hi, lo) ==
    [j \in 1..AddrLen |->
        (IF j = 1 THEN hi ELSE 0) + (IF j = AddrLen THEN lo ELSE 0)]

\* the addresses of the prefixes inserted and deleted: they share every
\* bit but the last, and start with a set bit
IPs == {Addr(128, 0), Addr(128, 1)}
\* an address the inserted prefixes cover only at length 0
Outside == Addr(0, 0)
AddrSeq == <<Addr(128, 0), Addr(128, 1), Outside>>
Addrs == {AddrSeq[i] : i \in DOMAIN AddrSeq}
PrefixLens == {0, 1, Width}
InsertValues == Values \cup {NoValue}

\* what parsecidr returns: an address and a mask of equal length; for a
\* bare address that does not parse, a nil address with the full mask and
\* no error; for a CIDR that does not parse, the error
BadBare == [ip |-> << >>, mask |-> fullMask, err |-> NoErr]
BadCIDR == [ip |-> << >>, mask |-> << >>, err |-> ErrParse]
\* a CIDR in dotted form whose prefix length, with the 96 bits added for
\* the dotted form, exceeds the width (as "::ffff:1.2.3.4/100"): the
\* address parses, the mask is nil, and there is no error
OverLong == [ip |-> Addr(128, 0), mask |-> CIDRMask(Width + 1, Width), err |-> NoErr]
Parsed ==
    {[ip |-> k, mask |-> CIDRMask(n, Width), err |-> NoErr] : k \in IPs, n \in PrefixLens}
    \cup {BadBare, BadCIDR, OverLong}
\* lookups are also made of the outside address
Queries == Parsed \cup {[ip |-> Outside, mask |-> fullMask, err |-> NoErr]}

(* ------------------------------- actions ------------------------------- *)
Running == last.err # Panic

Commit(t) ==
    /\ root' = t.root
    /\ free' = t.free
    /\ nodes' = t.nodes
    /\ allocLen' = t.len
    /\ allocCap' = t.cap

Init ==
    /\ root = NewTree.p
    /\ free = NewTree.t.free
    /\ nodes = NewTree.t.nodes
    /\ allocLen = NewTree.t.len
    /\ allocCap = NewTree.t.cap
    /\ last = [op |-> "NewTree", err |-> NoErr, value |-> NoValue]

Insert(op, c, v, overwrite) ==
    /\ Running
    /\ LET r == IF c.err # NoErr THEN [t |-> Tree, err |-> c.err]
                ELSE insert(Tree, c.ip, c.mask, v, overwrite)
       IN  /\ Len(r.t.nodes) <= MaxNodes
           /\ Commit(r.t)
           /\ last' = [op |-> op, err |-> r.err, value |-> NoValue]

AddCIDR(c, v) == Insert("AddCIDR", c, v, FALSE)

SetCIDR(c, v) == Insert("SetCIDR", c, v, TRUE)

Delete(op, c, wholeRange) ==
    /\ Running
    /\ LET r == IF c.err # NoErr THEN [t |-> Tree, err |-> c.err]
                ELSE delete(Tree, c.ip, c.mask, wholeRange)
       IN  /\ Commit(r.t)
           /\ last' = [op |-> op, err |-> r.err, value |-> NoValue]

DeleteCIDR(c) == Delete("DeleteCIDR", c, FALSE)

DeleteWholeRangeCIDR(c) == Delete("DeleteWholeRangeCIDR", c, TRUE)

FindCIDR(c) ==
    /\ Running
    /\ UNCHANGED <<root, free, nodes, allocLen, allocCap>>
    /\ last' = [op |-> "FindCIDR", err |-> c.err,
                value |-> IF c.err # NoErr THEN NoValue ELSE find(Tree, c.ip, c.mask)]

Next ==
    \/ \E c \in Parsed, v \in InsertValues : AddCIDR(c, v)
    \/ \E c \in Parsed, v \in InsertValues : SetCIDR(c, v)
    \/ \E c \in Parsed : DeleteCIDR(c)
    \/ \E c \in Parsed : DeleteWholeRangeCIDR(c)
    \/ \E c \in Queries : FindCIDR(c)

Spec == Init /\ [][Next]_vars

\* churn: inserts and exact deletes only (no range delete, no lookup)
NextChurn ==
    \/ \E c \in Parsed, v \in InsertValues : AddCIDR(c, v)
    \/ \E c \in Parsed, v \in InsertValues : SetCIDR(c, v)
    \/ \E c \in Parsed : DeleteCIDR(c)

SpecChurn == Init /\ [][NextChurn]_vars

\* inserts of non-nil values only, with both kinds of delete
NextValued ==
    \/ \E c \in Parsed, v \in Values : AddCIDR(c, v)
    \/ \E c \in Parsed, v \in Values : SetCIDR(c, v)
    \/ \E c \in Parsed : DeleteCIDR(c)
    \/ \E c \in Parsed : DeleteWholeRangeCIDR(c)

SpecValued == Init /\ [][NextValued]_vars

\* every operation, with the inserts drawing from several distinct values
\* and nil, so that a lookup shows which prefix its value came from
NextLookup ==
    \/ \E c \in Parsed, v \in LookupValues \cup {NoValue} : AddCIDR(c, v)
    \/ \E c \in Parsed, v \in LookupValues \cup {NoValue} : SetCIDR(c, v)
    \/ \E c \in Parsed : DeleteCIDR(c)
    \/ \E c \in Parsed : DeleteWholeRangeCIDR(c)
    \/ \E c \in Queries : FindCIDR(c)

SpecLookup == Init /\ [][NextLookup]_vars

(* ---------------------- prefixes, as the claims see them --------------- *)
TreeNext == [root |-> root', free |-> free', nodes |-> nodes',
             len |-> allocLen', cap |-> allocCap']

BitMasks == <<128, 64, 32, 16, 8, 4, 2, 1>>

\* bit d of a byte sequence, counted from the most significant bit, from 0
BitOf(key, d) == HasBit(key[(d \div ByteBits) + 1], BitMasks[(d % ByteBits) + 1])

\* the values along the path of key below node, from depth d to depth Width:
\* element m + 1 - d is the value the prefix key/m carries, NoValue if it
\* carries none or has no node
RECURSIVE PathValues(_, _, _, _)
PathValues(ns, node, key, d) ==
    IF d > Width THEN << >>
    ELSE LET v == IF node = Nil THEN NoValue ELSE ns[node].value
             nx == IF node = Nil \/ d = Width THEN Nil
                   ELSE IF BitOf(key, d) THEN ns[node].right ELSE ns[node].left
         IN  <<v>> \o PathValues(ns, nx, key, d + 1)

\* the place of an address in AddrSeq
Ix(a) == CHOOSE i \in DOMAIN AddrSeq : AddrSeq[i] = a

\* for every address of AddrSeq, the values of its prefixes of length
\* 0..Width
Vals(t) ==
    <<PathValues(t.nodes, t.root, AddrSeq[1], 0),
      PathValues(t.nodes, t.root, AddrSeq[2], 0),
      PathValues(t.nodes, t.root, AddrSeq[3], 0)>>

\* the value the prefix key/n carries, NoValue if it carries none
ValueAt(t, key, n) == PathValues(t.nodes, t.root, key, 0)[n + 1]

\* key/n and key2/n are the same prefix
SamePrefix(key, key2, n) == \A d \in 0..(n - 1) : BitOf(key, d) = BitOf(key2, d)

\* the last value of pv[1..n+1] that is not NoValue, NoValue if there is
\* none: the value of the longest registered prefix of length at most n
LongestIn(pv, n) ==
    LET S == {m \in 0..n : pv[m + 1] # NoValue}
    IN  IF S = {} THEN NoValue
        ELSE pv[(CHOOSE m \in S : \A m2 \in S : m2 <= m) + 1]

\* what parsecidr returns for the prefix k/n
Cidr(k, n) == [ip |-> k, mask |-> CIDRMask(n, Width), err |-> NoErr]

\* pre and post are Vals of two trees: every prefix but k/n carries the same
\* value in both
OthersKeep(pre, post, k, n) ==
    \A a \in Addrs, m \in 0..Width :
        ~(m = n /\ SamePrefix(a, k, n)) => post[Ix(a)][m + 1] = pre[Ix(a)][m + 1]

\* the nodes reachable from node by left and right links
RECURSIVE Subtree(_, _, _)
Subtree(ns, node, fuel) ==
    IF node = Nil \/ fuel = 0 THEN {}
    ELSE {node} \cup Subtree(ns, ns[node].left, fuel - 1)
                \cup Subtree(ns, ns[node].right, fuel - 1)

Reachable(t) == Subtree(t.nodes, t.root, Len(t.nodes))

\* the nodes of the free list, followed through the right links
RECURSIVE FreeChain(_, _, _)
FreeChain(ns, node, fuel) ==
    IF node = Nil \/ fuel = 0 THEN {}
    ELSE {node} \cup FreeChain(ns, ns[node].right, fuel - 1)

FreeNodes(t) == FreeChain(t.nodes, t.free, Len(t.nodes))

\* the nodes of the store that have x as their left or right child
ParentsOf(ns, x) == {y \in 1..Len(ns) : ns[y].left = x \/ ns[y].right = x}

\* following the parent back-references from x leads to the root
RECURSIVE ClimbsToRoot(_, _, _, _)
ClimbsToRoot(ns, rt, x, fuel) ==
    IF x = rt THEN TRUE
    ELSE IF x = Nil \/ fuel = 0 THEN FALSE
    ELSE ClimbsToRoot(ns, rt, ns[x].parent, fuel - 1)

\* k calls of newnode in a row, as the creation loop of insert makes them,
\* each return a node with every field empty
RECURSIVE AllocClear(_, _)
AllocClear(t, k) ==
    IF k = 0 THEN TRUE
    ELSE LET a == newnode(t)
         IN  a.t.nodes[a.p] = ZeroNode /\ AllocClear(a.t, k - 1)

\* the free list, followed from node, ends without meeting a node twice
RECURSIVE FreeEnds(_, _, _)
FreeEnds(ns, node, seen) ==
    IF node = Nil THEN TRUE
    ELSE IF node \in seen \/ node \notin 1..Len(ns) THEN FALSE
    ELSE FreeEnds(ns, ns[node].right, seen \cup {node})

\* the tree below node without the pointers: the value of the node and
\* the shapes below its left and right child; << >> where there is no node
RECURSIVE Shape(_, _, _)
Shape(ns, node, fuel) ==
    IF node = Nil \/ fuel = 0 THEN << >>
    ELSE <<ns[node].value,
           Shape(ns, ns[node].left, fuel - 1),
           Shape(ns, ns[node].right, fuel - 1)>>

ShapeOf(t) == Shape(t.nodes, t.root, Len(t.nodes))

Max(a, b) == IF a >= b THEN a ELSE b

\* every prefix has been deleted and every node taken from storage but the
\* root is on the free list: the tree after a batch of prefixes was
\* inserted and all of them were deleted again
Emptied(t) ==
    /\ Len(t.nodes) > 1
    /\ Reachable(t) = {t.root}
    /\ t.nodes[t.root].value = NoValue
    /\ FreeNodes(t) = (1..Len(t.nodes)) \ {t.root}

Mutators == {"AddCIDR", "SetCIDR", "DeleteCIDR", "DeleteWholeRangeCIDR"}

(* -------------------------------- claims ------------------------------- *)
\* C1: a full-width lookup of any address returns the value of the longest
\* registered prefix (length 0..Width) that covers it.
C1_LongestMatchWins ==
    \A cur \in {Vals(Tree)}, a \in Addrs :
        find(Tree, a, fullMask) = LongestIn(cur[Ix(a)], Width)

\* C2: a lookup of an address that no registered prefix covers returns no
\* match; and a prefix comes to carry a value only by a successful insert
\* of that prefix with that value, so no stale or foreign value can appear.
C2_NoMatch ==
    /\ [](\A cur \in {Vals(Tree)}, a \in Addrs :
            (\A n \in 0..Width : cur[Ix(a)][n + 1] = NoValue)
                => find(Tree, a, fullMask) = NoValue)
    /\ [][\A pre \in {Vals(Tree)}, post \in {Vals(TreeNext)} :
              \A a \in Addrs, n \in 0..Width :
                (post[Ix(a)][n + 1] # NoValue /\ post[Ix(a)][n + 1] # pre[Ix(a)][n + 1])
                => /\ last'.op \in {"AddCIDR", "SetCIDR"}
                   /\ last'.err = NoErr
                   /\ \E k \in IPs, v \in Values :
                        /\ SamePrefix(a, k, n)
                        /\ post[Ix(a)][n + 1] = v
                        /\ AddCIDR(Cidr(k, n), v) \/ SetCIDR(Cidr(k, n), v)]_vars

\* a lookup has just found no match, in a tree that holds a registered
\* prefix, has recycled nodes, and leaves an inserted address uncovered
C2_Witness ==
    /\ last.op = "FindCIDR" /\ last.err = NoErr /\ last.value = NoValue
    /\ free # Nil
    /\ ValueAt(Tree, Addr(128, 1), Width) # NoValue
    /\ \A n \in 0..Width : ValueAt(Tree, Addr(128, 0), n) = NoValue

\* C3: AddCIDR of a prefix that carries a value returns NodeBusy and the
\* prefix still carries that value.
C3_AddConflict ==
    [][last'.op = "AddCIDR" =>
        \A pre \in {Vals(Tree)}, post \in {Vals(TreeNext)} :
           \A k \in IPs, n \in PrefixLens, v \in InsertValues :
              (/\ pre[Ix(k)][n + 1] # NoValue
               /\ AddCIDR(Cidr(k, n), v))
              => /\ last'.err = ErrNodeBusy
                 /\ post[Ix(k)][n + 1] = pre[Ix(k)][n + 1]]_vars

\* AddCIDR has just answered NodeBusy in a tree where a full-width prefix
\* and the prefix of length 1 above it carry values
C3_Witness ==
    /\ last.op = "AddCIDR" /\ last.err = ErrNodeBusy
    /\ ValueAt(Tree, Addr(128, 0), Width) # NoValue
    /\ ValueAt(Tree, Addr(128, 0), 1) # NoValue

\* C4: SetCIDR of a well-formed prefix succeeds whether or not the prefix
\* carries a value; afterwards the prefix carries exactly the value given
\* and every other prefix carries what it carried before.
C4_SetUpsert ==
    [][last'.op = "SetCIDR" =>
        \A pre \in {Vals(Tree)}, post \in {Vals(TreeNext)} :
           \A k \in IPs, n \in PrefixLens, v \in InsertValues :
              SetCIDR(Cidr(k, n), v)
              => /\ last'.err = NoErr
                 /\ post[Ix(k)][n + 1] = v
                 /\ OthersKeep(pre, post, k, n)]_vars

\* SetCIDR has just succeeded in a tree where nested prefixes and a
\* sibling carry values and nodes have been recycled
C4_Witness ==
    /\ last.op = "SetCIDR" /\ last.err = NoErr
    /\ ValueAt(Tree, Addr(128, 0), 0) # NoValue
    /\ ValueAt(Tree, Addr(128, 0), 1) # NoValue
    /\ ValueAt(Tree, Addr(128, 1), Width) # NoValue
    /\ free # Nil

\* C5: DeleteCIDR of a registered prefix with longer registered prefixes
\* beneath it succeeds and removes only that prefix's value: every other
\* prefix keeps its value, and every full-width lookup afterwards returns
\* the value of the longest prefix still registered that covers the
\* address (the longer prefix's under it, else the next shorter one's, else
\* no match).
C5_DeleteKeepsDescendants ==
    [][last'.op = "DeleteCIDR" =>
        \A pre \in {Vals(Tree)}, post \in {Vals(TreeNext)} :
           \A k \in IPs, n \in PrefixLens :
              (/\ pre[Ix(k)][n + 1] # NoValue
               /\ \E a \in Addrs, m \in (n + 1)..Width :
                     SamePrefix(a, k, n) /\ pre[Ix(a)][m + 1] # NoValue
               /\ DeleteCIDR(Cidr(k, n)))
              => /\ last'.err = NoErr
                 /\ post[Ix(k)][n + 1] = NoValue
                 /\ OthersKeep(pre, post, k, n)
                 /\ \A a \in Addrs :
                      find(TreeNext, a, fullMask) = LongestIn(post[Ix(a)], Width)]_vars

\* C6: after a successful DeleteWholeRangeCIDR of k/n no prefix equal to or
\* extending k/n carries a value, every other prefix carries what it
\* carried before, and a lookup under k/n returns the value of the longest
\* registered prefix shorter than n that covers the address, or no match.
C6_RangeDelete ==
    [][last'.op = "DeleteWholeRangeCIDR" =>
        \A pre \in {Vals(Tree)}, post \in {Vals(TreeNext)} :
           \A k \in IPs, n \in PrefixLens :
              (/\ last'.err = NoErr
               /\ DeleteWholeRangeCIDR(Cidr(k, n)))
              => /\ n > 0
                 /\ \A a \in Addrs, m \in 0..Width :
                      IF m >= n /\ SamePrefix(a, k, n)
                      THEN post[Ix(a)][m + 1] = NoValue
                      ELSE post[Ix(a)][m + 1] = pre[Ix(a)][m + 1]
                 /\ \A a \in Addrs :
                      SamePrefix(a, k, n)
                        => find(TreeNext, a, fullMask) = LongestIn(pre[Ix(a)], n - 1)]_vars

\* a range delete has just succeeded and cut off a subtree in which a
\* descendant carried a value (the node is now neither in the tree nor on
\* the free list), while the root carries a value
C6_Witness ==
    /\ last.op = "DeleteWholeRangeCIDR" /\ last.err = NoErr
    /\ nodes[root].value # NoValue
    /\ \E x \in 1..Len(nodes) :
          /\ x \notin Reachable(Tree) /\ x \notin FreeNodes(Tree)
          /\ nodes[x].value # NoValue /\ nodes[x].parent # Nil

\* C7: DeleteCIDR of a prefix (of any length 0..Width) that carries no
\* value returns NotFound.
C7_ReDeleteFails ==
    [][last'.op = "DeleteCIDR" =>
        \A pre \in {Vals(Tree)} :
           \A k \in IPs, n \in PrefixLens :
              (/\ pre[Ix(k)][n + 1] = NoValue
               /\ DeleteCIDR(Cidr(k, n)))
              => last'.err = ErrNotFound]_vars

\* C8: when an insert or a delete returns BadAddress, NodeBusy or NotFound,
\* the root, the free list, every node and the allocated storage are as
\* they were before the call.
C8_NoPartialMutation ==
    [][(last'.op \in Mutators /\ last'.err \in {ErrBadIP, ErrNodeBusy, ErrNotFound})
        => UNCHANGED <<root, free, nodes, allocLen, allocCap>>]_vars

\* DeleteCIDR has just answered NotFound in a tree with a registered
\* full-width prefix, structural nodes above it and a non-empty free list
C8_Witness ==
    /\ last.op = "DeleteCIDR" /\ last.err = ErrNotFound
    /\ free # Nil
    /\ ValueAt(Tree, Addr(128, 0), Width) # NoValue
    /\ ValueAt(Tree, Addr(128, 0), 1) = NoValue

\* C9: every operation completes without fault, and the root node exists,
\* has no parent and is not on the free list.
C9_RootNeverDeleted ==
    /\ last.err # Panic
    /\ root \in 1..Len(nodes)
    /\ nodes[root].parent = Nil
    /\ root \notin FreeNodes(Tree)

\* C10: a lookup never reports success (nil error) while its value is the
\* bad-address marker.
C10_LookupErrorExplicit ==
    ~(last.op = "FindCIDR" /\ last.err = NoErr /\ last.value = ErrBadIP)

\* C11: after a batch of prefixes was inserted and all of them were deleted
\* with DeleteCIDR, inserting a new prefix takes no fresh node from storage:
\* the number of nodes taken from storage stays what the first batch left.
C11_ReuseBound ==
    [][(last'.op \in {"AddCIDR", "SetCIDR"} /\ Emptied(Tree))
        => Len(nodes') = Len(nodes)]_vars

\* C11, amended: under inserts and exact deletes a fresh node is taken from
\* storage only when the free list is used up, so after every operation the
\* number of nodes taken from storage is the larger of that number before
\* the operation and the number of nodes then in the tree.
C11_ReuseUpToTreeSize ==
    [][\A now \in {Cardinality(Reachable(TreeNext))} :
          Len(nodes') = Max(Len(nodes), now)]_vars

\* an insert has just reused a released node without growing storage: a
\* full-width prefix was inserted and deleted, then a prefix of length 1
\* was inserted, leaving the other released nodes on the free list
C11_Witness ==
    /\ last.op \in {"AddCIDR", "SetCIDR"} /\ last.err = NoErr
    /\ Len(nodes) = Width + 1
    /\ Cardinality(Reachable(Tree)) = 2
    /\ Cardinality(FreeNodes(Tree)) = Width - 1
    /\ ValueAt(Tree, Addr(128, 0), 1) # NoValue

\* C12: when only non-nil values are inserted, every node reachable from the
\* root other than the root has a value or a child.
C12_Compaction ==
    \A x \in Reachable(Tree) \ {root} :
        nodes[x].value # NoValue \/ nodes[x].left # Nil \/ nodes[x].right # Nil

\* a delete has just pruned nodes and left a valueless node with a child
\* on the way to a registered full-width prefix
C12_Witness ==
    /\ last.op \in {"DeleteCIDR", "DeleteWholeRangeCIDR"} /\ last.err = NoErr
    /\ free # Nil
    /\ ValueAt(Tree, Addr(128, 0), Width) # NoValue
    /\ ValueAt(Tree, Addr(128, 0), 1) = NoValue
    /\ ValueAt(Tree, Addr(128, 1), Width) = NoValue

\* C13: the nodes reachable from the root form a tree: the root has no
\* parent and is no node's child; every other reachable node is the child of
\* exactly one node, which is reachable and is the node its parent
\* back-reference names; it is not both the left and the right child; and
\* the back-references lead from every reachable node to the root.
C13_TreeShape ==
    \A reach \in {Reachable(Tree)} :
       /\ nodes[root].parent = Nil
       /\ ParentsOf(nodes, root) = {}
       /\ \A x \in reach \ {root} :
             /\ ParentsOf(nodes, x) = {nodes[x].parent}
             /\ nodes[x].parent \in reach
             /\ ~(nodes[nodes[x].parent].left = x /\ nodes[nodes[x].parent].right = x)
             /\ ClimbsToRoot(nodes, root, x, Len(nodes))

\* an insert or delete has just succeeded in a tree where a node cut off by
\* a range delete still names as its parent a node that was recycled and
\* is in the tree again
C13_Witness ==
    /\ last.op \in Mutators /\ last.err = NoErr
    /\ \E y \in 1..Len(nodes) :
          /\ y \notin Reachable(Tree) /\ y \notin FreeNodes(Tree)
          /\ nodes[y].parent \in Reachable(Tree) \ {root}

\* C14: a node that a delete pushes onto the free list is not the root and,
\* at the moment it is pushed, has no value, no left child and no right
\* child.  (The push overwrites right; the right child at that moment is
\* the one the node had before the call, unless the same call had already
\* unlinked and recycled that child.)
C14_RecycledEmpty ==
    [][last'.op \in {"DeleteCIDR", "DeleteWholeRangeCIDR"} =>
        \A pushed \in {FreeNodes(TreeNext) \ FreeNodes(Tree)} :
           \A x \in pushed :
              /\ x # root
              /\ nodes'[x].value = NoValue
              /\ nodes'[x].left = Nil
              /\ nodes[x].right = Nil \/ nodes[x].right \in pushed]_vars

\* C15: every node taken from storage is reachable from the root or is on
\* the free list.
C15_NoLeak ==
    Reachable(Tree) \cup FreeNodes(Tree) = 1..Len(nodes)

\* C16: in every reachable state, each node newnode returns (as many in a
\* row as one insert can ask for) has left, right, parent and value empty,
\* whether it is popped from the free list or fresh.
C16_AllocatedClear ==
    AllocClear(Tree, Width)

\* the head of the free list is a node that a range delete recycled while
\* it held a value and a child, and fewer nodes are free than an insert
\* can ask for, so that fresh nodes are returned as well
C16_Witness ==
    /\ last.op = "DeleteWholeRangeCIDR" /\ last.err = NoErr
    /\ free # Nil
    /\ nodes[free].value # NoValue
    /\ nodes[free].left # Nil
    /\ Cardinality(FreeNodes(Tree)) < Width

\* C17: a lookup of an address with a mask of n set bits, n < Width, returns
\* the value of the longest registered prefix of length at most n that
\* covers the address (no match if there is none), whatever longer prefixes
\* are registered.
C17_MaskBound ==
    \A cur \in {Vals(Tree)}, a \in Addrs, n \in 0..(Width - 1) :
        find(Tree, a, CIDRMask(n, Width)) = LongestIn(cur[Ix(a)], n)

\* a lookup has just returned the value of the prefix of length 1 while
\* both full-width prefixes under it carry another value and the prefix of
\* length 0 carries none: the lookup was made with a mask shorter than
\* Width, and the lookups with masks of 1 and Width bits differ
C17_Witness ==
    /\ last.op = "FindCIDR" /\ last.err = NoErr
    /\ last.value = ValueAt(Tree, Addr(128, 0), 1)
    /\ ValueAt(Tree, Addr(128, 0), 0) = NoValue
    /\ ValueAt(Tree, Addr(128, 0), 1) \in LookupValues
    /\ ValueAt(Tree, Addr(128, 0), Width) \in LookupValues \ {last.value}
    /\ ValueAt(Tree, Addr(128, 1), Width) \in LookupValues \ {last.value}
    /\ find(Tree, Addr(128, 0), CIDRMask(1, Width)) = last.value
    /\ find(Tree, Addr(128, 0), fullMask) # last.value

\* C18: a lookup never loses a match to a node without a value: when some
\* prefix of length at most n over the address carries a value, the lookup
\* with a mask of n bits (n up to Width) returns a value.
C18_ValuelessNeverErases ==
    \A cur \in {Vals(Tree)}, a \in Addrs, n \in 0..Width :
        (\E m \in 0..n : cur[Ix(a)][m + 1] # NoValue)
            => find(Tree, a, CIDRMask(n, Width)) # NoValue

\* C19: no node of the free list is reachable from the root, and the free
\* list ends without holding a node twice.
C19_FreeDisjoint ==
    /\ FreeNodes(Tree) \cap Reachable(Tree) = {}
    /\ FreeEnds(nodes, free, {})

\* several nodes are on the free list, and its head still names as its
\* parent a node that is in the tree, under a registered prefix
C19_Witness ==
    /\ Cardinality(FreeNodes(Tree)) >= 2
    /\ nodes[free].parent \in Reachable(Tree) \ {root}
    /\ ValueAt(Tree, Addr(128, 0), 1) # NoValue
    /\ last.op \in {"DeleteCIDR", "DeleteWholeRangeCIDR"} /\ last.err = NoErr

\* C20: in every state reached with non-nil values only, for every prefix
\* that carries no value, AddCIDR of the prefix with a value and then
\* DeleteCIDR of it both succeed, and the tree reachable from the root has
\* the shape and the values it had before.
C20_RoundTrip ==
    \A cur \in {Vals(Tree)}, before \in {ShapeOf(Tree)} :
       \A k \in IPs, n \in PrefixLens, v \in Values :
          (Running /\ cur[Ix(k)][n + 1] = NoValue)
          => \A added \in {insert(Tree, k, CIDRMask(n, Width), v, FALSE)} :
                \A deleted \in {delete(added.t, k, CIDRMask(n, Width), FALSE)} :
                   /\ added.err = NoErr
                   /\ deleted.err = NoErr
                   /\ ShapeOf(deleted.t) = before

====
